---- MODULE Spec2Model ----
(***************************************************************************)
(* gambleboy: slot-machine cabinet controller.                             *)
(*   main.py                  Button, handle_button_presses, spin, main    *)
(*   serial_communication.py  SerialCommunication                          *)
(*   slot_machine_video.py    SlotMachineVideo.play_animation              *)
(*                                                                         *)
(* Strings and byte strings are sequences of tokens; every token stands    *)
(* for a run of ASCII characters, so encode('utf-8') keeps the sequence.   *)
(***************************************************************************)
EXTENDS Integers, Sequences, FiniteSets, TLC

VARIABLES
    \* SerialCommunication
    connection,     \* self.connection: "None", or the handle's state "open" / "closed"
    connected,      \* self.connected
    pending,        \* transport: bytes written and not yet flushed
    wire,           \* transport: bytes flushed to the wire
    rx,             \* transport: received bytes not yet read
    lastCall,       \* the last call made on the link and what it did
    pre,            \* the link as it was when the last call began
    ncalls,         \* number of calls made on the link by the link driver
    \* Button
    last_state,     \* Button.last_state
    released,       \* a poll has read not-pressed since the last edge
    samples,        \* the raw levels read by the button driver's polls
    edges,          \* the values was_just_pressed returned for them
    \* SlotMachineVideo
    frames,         \* lengths of spin_frames, win_frames, lose_frames
    anim,           \* the animation being played
    frameIdx,       \* iterations of its loop already completed
    rendered,       \* the frames handed to disp.display in this animation
    waits,          \* the frame delays completed in this animation
    \* SlotMachineAudio
    cues,           \* the sound cues triggered so far
    \* main / handle_button_presses / spin
    pc,             \* position of the main coroutine
    payout,         \* value returned by spin()
    draw,           \* the draw get_payout() last used (-1: none yet)
    won,            \* rand < 0.2 in the current turn
    sendLog,        \* the texts handle_button_presses passed to send_data
    turns,          \* button edges handled so far
    teardown,       \* what the finally block has done
    exitCause,      \* why the main coroutine ended
    faults          \* transport faults met by the orchestrator so far

linkVars   == <<connection, connected, pending, wire, rx, lastCall, pre>>
buttonVars == <<last_state, released, samples, edges>>
videoVars  == <<frames, anim, frameIdx, rendered, waits>>
audioVars  == <<cues>>
mainVars   == <<pc, payout, draw, won, sendLog, turns, teardown, exitCause>>
vars       == <<linkVars, ncalls, buttonVars, videoVars, audioVars, mainVars, faults>>

----------------------------------------------------------------------------
\* Bounds of the model.
MaxCalls   == 5     \* calls made by the link driver
MaxSamples == 6     \* polls made by the button driver
MaxFrames  == 2     \* frames per animation
MaxTurns   == 2     \* turns of the orchestrator
MaxRx      == 2     \* received tokens buffered at once
MaxFaults  == 1     \* transport faults met by the orchestrator

----------------------------------------------------------------------------
\* main.py constants
GAMBLE_AMT == 200
GAMBLE_CHANCES == <<10, 50, 100, 200, 500, 1000, 10000, 100000>>
\* the weights 0.5, 1, 0.5, 0.4, 0.35, 0.1, 0.01, 0.001 in thousandths
GAMBLE_WEIGHTS == <<500, 1000, 500, 400, 350, 100, 10, 1>>

NL == "\n"

\* f"GAMBLE {GAMBLE_AMT}", f"WIN {payout}", "LOSE"
GambleText     == <<"GAMBLE ", ToString(GAMBLE_AMT)>>
WinText(n)     == <<"WIN ", ToString(n)>>
LoseText       == <<"LOSE">>

Texts == {GambleText, LoseText} \cup {WinText(GAMBLE_CHANCES[i]) : i \in DOMAIN GAMBLE_CHANCES}

----------------------------------------------------------------------------
\* SerialCommunication

NoCall == [op |-> "none", arg |-> <<>>, ret |-> "none", nWrite |-> 0, nFlush |-> 0,
           wrote |-> <<>>, nClose |-> 0, repeat |-> FALSE]

LinkState == [connection |-> connection, connected |-> connected,
              pending |-> pending, wire |-> wire, rx |-> rx]

\* __init__
LinkInit ==
    /\ connection = "None"
    /\ connected = FALSE
    /\ pending = <<>>
    /\ wire = <<>>
    /\ rx = <<>>
    /\ lastCall = NoCall
    /\ pre = [connection |-> "None", connected |-> FALSE,
              pending |-> <<>>, wire |-> <<>>, rx |-> <<>>]

\* connect(): serial.Serial(...) either returns an open handle or raises;
\* when it raises the assignment to self.connection does not happen. A new
\* handle starts with empty buffers.
connect(ok) ==
    /\ pre' = LinkState
    /\ connection' = IF ok THEN "open" ELSE connection
    /\ connected' = ok
    /\ pending' = IF ok THEN <<>> ELSE pending
    /\ rx' = IF ok THEN <<>> ELSE rx
    /\ UNCHANGED wire
    /\ lastCall' = [NoCall EXCEPT !.op = "connect", !.ret = IF ok THEN "True" ELSE "False"]

\* mutant of disconnect: the handle is closed whenever there is one, the
\* test of is_open is missing
disconnect_NoOpenTest ==
    /\ pre' = LinkState
    /\ IF connection # "None"
         THEN /\ connection' = "closed"
              /\ connected' = FALSE
              /\ pending' = <<>>
              /\ rx' = <<>>
         ELSE UNCHANGED <<connection, connected, pending, rx>>
    /\ UNCHANGED wire
    /\ lastCall' = [NoCall EXCEPT !.op = "disconnect", !.ret = "None",
                      !.nClose = IF connection # "None" THEN 1 ELSE 0,
                      !.repeat = (lastCall.op = "disconnect")]

\* disconnect(): close() drops what the handle still buffers. nClose counts
\* the calls of connection.close(); repeat tells that the call before this
\* one was a disconnect too.
disconnect ==
    /\ pre' = LinkState
    /\ IF connection = "open"
         THEN /\ connection' = "closed"
              /\ connected' = FALSE
              /\ pending' = <<>>
              /\ rx' = <<>>
         ELSE UNCHANGED <<connection, connected, pending, rx>>
    /\ UNCHANGED wire
    /\ lastCall' = [NoCall EXCEPT !.op = "disconnect", !.ret = "None",
                      !.nClose = IF connection = "open" THEN 1 ELSE 0,
                      !.repeat = (lastCall.op = "disconnect")]

\* mutant of SendGuard: the guard tests the handle and not the flag
SendGuard_HandleOnly == connection # "None"

\* send_data: the guard of lines 39-41
SendGuard == connected /\ connection # "None"

\* mutant of SendResult: the except clause misses the transport's error,
\* which leaves the call
SendResult_Uncaught(guardOk, wOk, fOk) ==
    IF guardOk /\ wOk /\ fOk THEN "True"
    ELSE IF guardOk THEN "raise"
    ELSE "False"

\* send_data: what the call returns, given whether the guard passed and
\* whether write and flush went through: "True", "False", or "raise" when an
\* exception leaves the call.
SendResult(guardOk, wOk, fOk) ==
    IF guardOk /\ wOk /\ fOk THEN "True" ELSE "False"

\* mutant of CommandWithNewline: the terminator is left out
CommandWithNewline_NoTerminator(data) == data

\* send_data: the bytes handed to write()
CommandWithNewline(data) == data \o <<NL>>

\* send_data(data); wres, fres: whether the transport lets write and flush
\* through ("ok") or raises. A closed handle raises on write.
send_data(data, wres, fres) ==
    LET guardOk == SendGuard
        wOk     == guardOk /\ wres = "ok" /\ connection = "open"
        fOk     == wOk /\ fres = "ok"
        bytes   == CommandWithNewline(data)
        buf     == IF wOk THEN pending \o bytes ELSE pending
    IN  /\ pre' = LinkState
        /\ pending' = IF fOk THEN <<>> ELSE buf
        /\ wire' = IF fOk THEN wire \o buf ELSE wire
        /\ UNCHANGED <<connection, connected, rx>>
        /\ lastCall' = [NoCall EXCEPT
                          !.op = "send_data", !.arg = data,
                          !.ret = SendResult(guardOk, wOk, fOk),
                          !.nWrite = IF guardOk THEN 1 ELSE 0,
                          !.nFlush = IF wOk THEN 1 ELSE 0,
                          !.wrote = IF wOk THEN bytes ELSE <<>>]

\* readline() with the read timeout: the bytes up to and including the first
\* newline, or everything buffered when the timeout expires without one.
RECURSIVE FirstNL(_, _)
FirstNL(buf, i) ==
    IF i > Len(buf) THEN 0
    ELSE IF buf[i] = NL THEN i
    ELSE FirstNL(buf, i + 1)

ReadLine(buf) ==
    LET i == FirstNL(buf, 1)
        n == IF i > 0 THEN i ELSE Len(buf)
    IN  [line |-> SubSeq(buf, 1, n), rest |-> SubSeq(buf, n + 1, Len(buf))]

\* str.strip(): NL is the only whitespace token
RECURSIVE Strip(_)
Strip(s) ==
    IF s = <<>> THEN s
    ELSE IF Head(s) = NL THEN Strip(Tail(s))
    ELSE IF s[Len(s)] = NL THEN Strip(SubSeq(s, 1, Len(s) - 1))
    ELSE s

\* json.loads succeeds on the text of exactly one JSON value ("J"); "B" is
\* text that is not JSON, and two values in a row are "Extra data".
JsonLoadsOk(line) == line = <<"J">>

\* mutant of ReadResult: the error of json.loads leaves the call
ReadResult_Uncaught(avail, line) ==
    IF avail /\ line # <<>>
      THEN (IF JsonLoadsOk(line) THEN "msg" ELSE "raise")
      ELSE "None"

\* read_data, lines 61-68: what the call returns, given whether bytes were
\* waiting and the stripped line read: the decoded message ("msg"), "None",
\* or "raise" when an exception leaves the call
ReadResult(avail, line) ==
    IF avail /\ line # <<>> /\ JsonLoadsOk(line) THEN "msg" ELSE "None"

\* read_data()
read_data ==
    LET guardOk == SendGuard
        avail   == guardOk /\ connection = "open" /\ Len(rx) > 0
        r       == ReadLine(rx)
        line    == Strip(r.line)
    IN  /\ pre' = LinkState
        /\ rx' = IF avail THEN r.rest ELSE rx
        /\ UNCHANGED <<connection, connected, pending, wire>>
        /\ lastCall' = [NoCall EXCEPT !.op = "read_data",
                          !.arg = IF avail THEN r.line ELSE <<>>,
                          !.ret = ReadResult(avail, line)]

\* the peripheral sends a token
RxArrive(tok) ==
    /\ connection = "open"
    /\ Len(rx) < MaxRx
    /\ rx' = Append(rx, tok)
    /\ UNCHANGED <<connection, connected, pending, wire, lastCall, pre>>

RxTokens == {"J", "B", NL}
Outcomes == {"ok", "raise"}
\* write and flush go through; write goes through and flush raises; write
\* raises (and flush is not reached)
SendOutcomes == {<<"ok", "ok">>, <<"ok", "raise">>, <<"raise", "ok">>}

----------------------------------------------------------------------------
\* Button

LOW  == 0
HIGH == 1
Levels == {LOW, HIGH}

\* is_pressed(): GPIO.input(pin) == GPIO.LOW
is_pressed(level) == level = LOW

\* mutant of was_just_pressed: the level is reported, not the edge
was_just_pressed_LevelTriggered(level, last) ==
    LET current_state == is_pressed(level)
    IN  [ret |-> current_state, last_state |-> current_state]

\* mutant of was_just_pressed: last_state is stored on an edge only
was_just_pressed_StaleState(level, last) ==
    LET current_state == is_pressed(level)
    IN  IF current_state /\ ~last
          THEN [ret |-> TRUE,  last_state |-> current_state]
          ELSE [ret |-> FALSE, last_state |-> last]

\* was_just_pressed(): the value returned and the new last_state
was_just_pressed(level, last) ==
    LET current_state == is_pressed(level)
    IN  IF current_state /\ ~last
          THEN [ret |-> TRUE,  last_state |-> current_state]
          ELSE [ret |-> FALSE, last_state |-> current_state]

----------------------------------------------------------------------------
\* Initial state: module-level construction in main.py (lines 44-51)

FrameCounts == [spin : 0..MaxFrames, win : 0..MaxFrames, lose : 0..MaxFrames]

Init ==
    /\ LinkInit
    /\ ncalls = 0
    /\ last_state = FALSE
    /\ released = FALSE
    /\ samples = <<>>
    /\ edges = <<>>
    /\ frames \in FrameCounts
    /\ anim = "none"
    /\ frameIdx = 0
    /\ rendered = <<>>
    /\ waits = 0
    /\ cues = <<>>
    /\ pc = "connect"
    /\ payout = 0
    /\ draw = -1
    /\ won = FALSE
    /\ sendLog = <<>>
    /\ turns = 0
    /\ teardown = [disconnect |-> FALSE, cleanup |-> FALSE]
    /\ exitCause = "none"
    /\ faults = 0

----------------------------------------------------------------------------
\* LinkSpec: a driver that makes any sequence of calls on one
\* SerialCommunication, while the peripheral sends tokens.

LinkTexts == {GambleText, LoseText}

LinkInitState ==
    /\ Init
    /\ frames = [spin |-> 0, win |-> 0, lose |-> 0]

Called == /\ ncalls < MaxCalls
          /\ ncalls' = ncalls + 1
          /\ UNCHANGED <<buttonVars, videoVars, audioVars, mainVars, faults>>

CallConnect    == \E ok \in BOOLEAN : connect(ok) /\ Called
CallDisconnect == disconnect /\ Called
CallSendData   == \E t \in LinkTexts, w \in Outcomes, f \in Outcomes :
                      send_data(t, w, f) /\ Called
CallReadData   == read_data /\ Called
Peripheral     == \E tok \in RxTokens :
                      RxArrive(tok) /\ UNCHANGED <<ncalls, buttonVars, videoVars, audioVars, mainVars, faults>>

LinkNext == CallConnect \/ CallDisconnect \/ CallSendData \/ CallReadData \/ Peripheral

LinkSpec == LinkInitState /\ [][LinkNext]_vars

----------------------------------------------------------------------------
\* Payout: get_payout() and the win gate of spin()

RECURSIVE CumWeight(_)
CumWeight(i) == IF i = 0 THEN 0 ELSE CumWeight(i - 1) + GAMBLE_WEIGHTS[i]

TotalWeight == CumWeight(Len(GAMBLE_WEIGHTS))

\* random.random() * total, in thousandths
Draws == 0 .. (TotalWeight - 1)

\* the draws the orchestrator is run with: the two ends of the range
DrawSamples == {0, TotalWeight - 1}

\* mutant of get_payout: bisect_left instead of bisect (bisect_right)
get_payout_LeftBisect(u) ==
    LET n == Len(GAMBLE_CHANCES)
        k == Cardinality({i \in 1 .. (n - 1) : CumWeight(i) < u})
    IN  GAMBLE_CHANCES[k + 1]

\* random.choices(GAMBLE_CHANCES, weights=GAMBLE_WEIGHTS)[0]:
\* population[bisect(cum_weights, random() * total, 0, n - 1)]
get_payout(u) ==
    LET n == Len(GAMBLE_CHANCES)
        k == Cardinality({i \in 1 .. (n - 1) : CumWeight(i) <= u})
    IN  GAMBLE_CHANCES[k + 1]

\* random.random() in hundredths, and the test rand < 0.2
RandValues == 0 .. 99
WinThreshold == 20
win_gate(rand) == rand < WinThreshold

\* mutant of OutcomeText: the payout is compared with the wager
OutcomeText_AboveWager(p) == IF p > GAMBLE_AMT THEN WinText(p) ELSE LoseText

\* handle_button_presses, lines 68-73: the line reported for a payout
OutcomeText(p) == IF p > 0 THEN WinText(p) ELSE LoseText

----------------------------------------------------------------------------
\* main(), handle_button_presses(), spin(), play_animation()

SuspensionPoints == {"retry_sleep", "poll_sleep", "frame_sleep", "cooldown"}

\* mutant of Unwind: no finally block runs anywhere
Unwind_NoFinally(p) == "exited"

\* where control goes when the coroutine is cancelled (or an exception
\* propagates) at position p: the try of main() covers handle_button_presses
\* only, so the connect loop unwinds without running the finally block.
Unwind(p) == IF p \in {"connect", "retry_sleep"} THEN "exited" ELSE "finally"

Idle   == UNCHANGED <<ncalls, samples, edges, cues>>
Steady == Idle /\ UNCHANGED faults

\* mutant of AfterConnect: the result of connect() is ignored
AfterConnect_Ignored(ok) == "poll"

\* main, lines 98-99: while not serial_comm.connect(): sleep
AfterConnect(ok) == IF ok THEN "poll" ELSE "retry_sleep"

\* main, line 98: serial_comm.connect()
Connect ==
    /\ pc = "connect"
    /\ \E ok \in BOOLEAN :
          /\ connect(ok)
          /\ pc' = AfterConnect(ok)
    /\ UNCHANGED <<last_state, released, videoVars, payout, draw, won, sendLog, turns, teardown, exitCause>>
    /\ Steady

\* main, line 99: asyncio.sleep(0.5) returns
RetryWake ==
    /\ pc = "retry_sleep"
    /\ pc' = "connect"
    /\ UNCHANGED <<linkVars, last_state, released, videoVars, payout, draw, won, sendLog, turns,
                   teardown, exitCause>>
    /\ Steady

\* handle_button_presses, line 57: spin_button.was_just_pressed()
Poll ==
    /\ pc = "poll"
    /\ \E level \in Levels :
          LET r == was_just_pressed(level, last_state)
          IN  /\ r.ret => turns < MaxTurns
              /\ last_state' = r.last_state
              /\ released' = IF r.ret THEN FALSE ELSE (released \/ ~is_pressed(level))
              /\ turns' = IF r.ret THEN turns + 1 ELSE turns
              /\ pc' = IF r.ret THEN "send_gamble" ELSE "poll_sleep"
    /\ UNCHANGED <<linkVars, videoVars, payout, draw, won, sendLog, teardown, exitCause>>
    /\ Steady

\* GPIO.input raises: the exception leaves handle_button_presses
PollFails ==
    /\ pc = "poll"
    /\ pc' = Unwind(pc)
    /\ exitCause' = "hardware"
    /\ UNCHANGED <<linkVars, last_state, released, videoVars, payout, draw, won, sendLog, turns, teardown>>
    /\ Steady

\* handle_button_presses, line 78: asyncio.sleep(0.05) returns
PollWake ==
    /\ pc = "poll_sleep"
    /\ pc' = "poll"
    /\ UNCHANGED <<linkVars, last_state, released, videoVars, payout, draw, won, sendLog, turns,
                   teardown, exitCause>>
    /\ Steady

\* a call of serial_comm.send_data(text) made by handle_button_presses;
\* next: the position reached when the call returns
Send(text, next) ==
    /\ \E o \in SendOutcomes :
          LET fault == o # <<"ok", "ok">>
          IN  /\ fault => faults < MaxFaults
              /\ faults' = IF fault THEN faults + 1 ELSE faults
              /\ send_data(text, o[1], o[2])
    /\ sendLog' = Append(sendLog, text)
    /\ IF lastCall'.ret = "raise"
         THEN pc' = Unwind(pc) /\ exitCause' = "send"
         ELSE pc' = next /\ UNCHANGED exitCause

\* handle_button_presses, line 61, and the entry into spin()
SendGamble ==
    /\ pc = "send_gamble"
    /\ Send(GambleText, "play")
    /\ anim' = "spin"
    /\ frameIdx' = 0
    /\ rendered' = <<>>
    /\ waits' = 0
    /\ UNCHANGED <<last_state, released, frames, payout, draw, won, turns, teardown>>
    /\ Idle

\* mutant of FrameAt: every iteration displays the last frame
FrameAt_Last(n, i) == n

\* play_animation, line 43: the frame of iteration i (from 0) of `for frame
\* in frames`, frames being numbered 1 .. n
FrameAt(n, i) == i + 1

\* play_animation, lines 43-45: display one frame and sleep
PlayFrame ==
    /\ pc = "play"
    /\ frameIdx < frames[anim]
    /\ rendered' = Append(rendered, FrameAt(frames[anim], frameIdx))
    /\ pc' = "frame_sleep"
    /\ UNCHANGED <<linkVars, last_state, released, frames, anim, frameIdx, waits,
                   payout, draw, won, sendLog, turns, teardown, exitCause>>
    /\ Steady

\* play_animation, line 45: asyncio.sleep(frame_delay) returns
FrameWake ==
    /\ pc = "frame_sleep"
    /\ frameIdx' = frameIdx + 1
    /\ waits' = waits + 1
    /\ pc' = "play"
    /\ UNCHANGED <<linkVars, last_state, released, frames, anim, rendered, payout, draw, won,
                   sendLog, turns, teardown, exitCause>>
    /\ Steady

\* mutant of Gate: the gate is drawn without waiting for the spin animation
\* to end
Gate_Early ==
    /\ pc = "play"
    /\ anim = "spin"
    /\ \E rand \in RandValues :
          /\ won' = win_gate(rand)
          /\ anim' = IF win_gate(rand) THEN "win" ELSE "lose"
    /\ frameIdx' = 0
    /\ rendered' = <<>>
    /\ waits' = 0
    /\ pc' = "play"
    /\ UNCHANGED <<linkVars, last_state, released, frames, payout, draw, sendLog, turns,
                   teardown, exitCause>>
    /\ Steady

\* spin, lines 85-92: the spin animation is over (or empty); the gate
\* is drawn and the outcome animation chosen
Gate ==
    /\ pc = "play"
    /\ anim = "spin"
    /\ frameIdx >= frames[anim]
    /\ \E rand \in RandValues :
          /\ won' = win_gate(rand)
          /\ anim' = IF win_gate(rand) THEN "win" ELSE "lose"
    /\ frameIdx' = 0
    /\ rendered' = <<>>
    /\ waits' = 0
    /\ pc' = "play"
    /\ UNCHANGED <<linkVars, last_state, released, frames, payout, draw, sendLog, turns,
                   teardown, exitCause>>
    /\ Steady

\* spin, line 90: the win animation is over; return get_payout()
WinReturn ==
    /\ pc = "play"
    /\ anim = "win"
    /\ frameIdx >= frames[anim]
    /\ \E u \in DrawSamples : draw' = u /\ payout' = get_payout(u)
    /\ pc' = "report"
    /\ UNCHANGED <<linkVars, last_state, released, videoVars, won, sendLog, turns, teardown, exitCause>>
    /\ Steady

\* spin, line 93: the lose animation is over; return 0
LoseReturn ==
    /\ pc = "play"
    /\ anim = "lose"
    /\ frameIdx >= frames[anim]
    /\ payout' = 0
    /\ pc' = "report"
    /\ UNCHANGED <<linkVars, last_state, released, videoVars, draw, won, sendLog, turns, teardown, exitCause>>
    /\ Steady

\* mutant of Report: the else branch is missing, a loss reports nothing
Report_NoLose ==
    /\ pc = "report"
    /\ IF payout > 0
         THEN Send(OutcomeText(payout), "cooldown")
         ELSE pc' = "cooldown" /\ UNCHANGED <<linkVars, sendLog, exitCause, faults>>
    /\ UNCHANGED <<last_state, released, videoVars, payout, draw, won, turns, teardown>>
    /\ Idle

\* handle_button_presses, lines 68-73
Report ==
    /\ pc = "report"
    /\ Send(OutcomeText(payout), "cooldown")
    /\ UNCHANGED <<last_state, released, videoVars, payout, draw, won, turns, teardown>>
    /\ Idle

\* mutant of CooldownWake: after the cooldown the orchestrator goes back to
\* connecting
CooldownWake_Reconnect ==
    /\ pc = "cooldown"
    /\ pc' = "connect"
    /\ UNCHANGED <<linkVars, last_state, released, videoVars, payout, draw, won, sendLog, turns,
                   teardown, exitCause>>
    /\ Steady

\* handle_button_presses, line 76: asyncio.sleep(1) returns
CooldownWake ==
    /\ pc = "cooldown"
    /\ pc' = "poll_sleep"
    /\ UNCHANGED <<linkVars, last_state, released, videoVars, payout, draw, won, sendLog, turns,
                   teardown, exitCause>>
    /\ Steady

\* an external interrupt, delivered where the coroutine is suspended
Interrupt ==
    /\ pc \in SuspensionPoints
    /\ pc' = Unwind(pc)
    /\ exitCause' = "interrupt"
    /\ UNCHANGED <<linkVars, last_state, released, videoVars, payout, draw, won, sendLog, turns, teardown>>
    /\ Steady

\* main, lines 109-111: serial_comm.disconnect(); GPIO.cleanup()
Finally ==
    /\ pc = "finally"
    /\ disconnect
    /\ teardown' = [disconnect |-> TRUE, cleanup |-> TRUE]
    /\ pc' = "exited"
    /\ UNCHANGED <<last_state, released, videoVars, payout, draw, won, sendLog, turns, exitCause>>
    /\ Steady

Next ==
    \/ Connect \/ RetryWake
    \/ Poll \/ PollFails \/ PollWake
    \/ SendGamble
    \/ PlayFrame \/ FrameWake \/ Gate \/ WinReturn \/ LoseReturn
    \/ Report \/ CooldownWake
    \/ Interrupt
    \/ Finally

Spec == Init /\ [][Next]_vars

\* the steps of the event loop that are not failures or interrupts: a
\* coroutine that can run is run, a sleep that was started expires
Progress ==
    \/ Connect \/ RetryWake
    \/ Poll \/ PollWake
    \/ SendGamble
    \/ PlayFrame \/ FrameWake \/ Gate \/ WinReturn \/ LoseReturn
    \/ Report \/ CooldownWake

\* the program run by an event loop that keeps running it; the two outcome
\* animations are loaded with the same number of frames
FairInit == Init /\ frames.win = frames.lose

FairSpec == FairInit /\ [][Next]_vars /\ WF_vars(Progress)

----------------------------------------------------------------------------
\* ButtonSpec: a driver that polls one Button with any sequence of raw levels.

ButtonInitState ==
    /\ Init
    /\ frames = [spin |-> 0, win |-> 0, lose |-> 0]

ButtonPoll ==
    /\ Len(samples) < MaxSamples
    /\ \E level \in Levels :
          LET r == was_just_pressed(level, last_state)
          IN  /\ last_state' = r.last_state
              /\ released' = IF r.ret THEN FALSE ELSE (released \/ ~is_pressed(level))
              /\ samples' = Append(samples, level)
              /\ edges' = Append(edges, r.ret)
    /\ UNCHANGED <<linkVars, ncalls, videoVars, audioVars, mainVars, faults>>

ButtonNext == ButtonPoll

ButtonSpec == ButtonInitState /\ [][ButtonNext]_vars

----------------------------------------------------------------------------
\* get_payout alone, over every draw: the draw is made, then the amount is
\* looked up and returned

PayoutInitState ==
    /\ LinkInit
    /\ ncalls = 0
    /\ last_state = FALSE
    /\ released = FALSE
    /\ samples = <<>>
    /\ edges = <<>>
    /\ frames = [spin |-> 0, win |-> 0, lose |-> 0]
    /\ anim = "none"
    /\ frameIdx = 0
    /\ rendered = <<>>
    /\ waits = 0
    /\ cues = <<>>
    /\ pc = "get_payout"
    /\ payout = 0
    /\ draw \in Draws
    /\ won = TRUE
    /\ sendLog = <<>>
    /\ turns = 0
    /\ teardown = [disconnect |-> FALSE, cleanup |-> FALSE]
    /\ exitCause = "none"
    /\ faults = 0

\* get_payout, lines 81-82
GetPayout ==
    /\ pc = "get_payout"
    /\ payout' = get_payout(draw)
    /\ pc' = "returned"
    /\ UNCHANGED <<linkVars, ncalls, buttonVars, videoVars, audioVars, draw, won, sendLog,
                   turns, teardown, exitCause, faults>>

PayoutNext == GetPayout

PayoutSpec == PayoutInitState /\ [][PayoutNext]_vars

----------------------------------------------------------------------------
\* Properties

Amounts == {GAMBLE_CHANCES[i] : i \in DOMAIN GAMBLE_CHANCES}
OutcomeTexts == {LoseText} \cup {WinText(a) : a \in Amounts}

\* the bytes of a sequence of lines, each with its newline
RECURSIVE WireOf(_)
WireOf(log) ==
    IF log = <<>> THEN <<>>
    ELSE Head(log) \o <<NL>> \o WireOf(Tail(log))

\* bytes are the lines of log, each with its newline, in order and with
\* some of them left out
RECURSIVE InOrderPartOf(_, _)
InOrderPartOf(bytes, log) ==
    IF bytes = <<>> THEN TRUE
    ELSE IF log = <<>> THEN FALSE
    ELSE LET line == Head(log) \o <<NL>>
         IN  IF Len(bytes) >= Len(line) /\ SubSeq(bytes, 1, Len(line)) = line
               THEN InOrderPartOf(SubSeq(bytes, Len(line) + 1, Len(bytes)), Tail(log))
               ELSE InOrderPartOf(bytes, Tail(log))

\* C1: the lines handle_button_presses writes to the link (passes to
\* send_data) alternate strictly: line 2k-1 is "GAMBLE 200" and line 2k is
\* the outcome line of the k-th detected edge, one of each per edge. The
\* bytes on the transport are those lines with their newlines, in order,
\* less the lines of sends that failed, and all of them when no send failed.
C1_LogShape ==
    /\ \A i \in 1 .. Len(sendLog) :
          IF i % 2 = 1 THEN sendLog[i] = GambleText ELSE sendLog[i] \in OutcomeTexts
    /\ pc \in {"connect", "retry_sleep", "poll", "poll_sleep", "cooldown"}
          => Len(sendLog) = 2 * turns
    /\ pc = "send_gamble" => Len(sendLog) = 2 * turns - 2
    /\ pc \in {"play", "frame_sleep", "report"} => Len(sendLog) = 2 * turns - 1
    /\ pc \in {"finally", "exited"} => Len(sendLog) \in {2 * turns - 1, 2 * turns}
    /\ InOrderPartOf(wire \o pending, sendLog)
    /\ faults = 0 => wire = WireOf(sendLog) /\ pending = <<>>

\* C1 (continued): nothing is handed to the link or reaches the transport in
\* a step taken from the cooldown wait, the poll or the poll delay.
C1_NoSendOutsideTurn ==
    [][(sendLog' # sendLog \/ wire' # wire \/ Len(pending') > Len(pending))
          => pc \in {"send_gamble", "report"}]_vars

\* C1: strict alternation of GAMBLE and outcome lines, none outside a turn.
C1_Alternation == []C1_LogShape /\ C1_NoSendOutsideTurn

\* two complete turns, both on the wire
C1_Witness ==
    /\ pc = "cooldown"
    /\ turns = 2
    /\ Len(sendLog) = 4
    /\ wire = WireOf(sendLog)

\* C2: was_just_pressed returns true exactly for a pressed (LOW) sample that
\* follows a not-pressed sample (or is the first), and last_state is the
\* current sample's pressed state after every call.
C2_RisingEdge ==
    /\ Len(edges) = Len(samples)
    /\ \A i \in 1 .. Len(samples) :
          edges[i] <=> (samples[i] = LOW /\ (i = 1 \/ samples[i - 1] = HIGH))
    /\ \A i \in 1 .. (Len(samples) - 1) :
          (samples[i] = LOW /\ samples[i + 1] = LOW) => ~edges[i + 1]
    /\ last_state = (samples # <<>> /\ samples[Len(samples)] = LOW)

\* a press held over two polls, released, and pressed again
C2_Witness ==
    /\ samples = <<HIGH, LOW, LOW, HIGH, LOW>>
    /\ edges = <<FALSE, TRUE, FALSE, FALSE, TRUE>>

\* C3: when the process has exited on an interrupt, the link disconnect and
\* the GPIO cleanup have both been performed.
C3_TeardownOnInterrupt ==
    (pc = "exited" /\ exitCause = "interrupt")
        => (teardown.disconnect /\ teardown.cleanup)

\* C4: the connected flag is true exactly when the handle exists and is open.
C4_NeverPartiallyOpen == connected <=> (connection = "open")

\* C5: a send_data call made while the link is not connected returns False,
\* makes no write and no flush, and leaves the link as it was.
C5_SendWhileDisconnected ==
    (lastCall.op = "send_data" /\ ~(pre.connected /\ pre.connection # "None"))
        => /\ lastCall.ret = "False"
           /\ lastCall.nWrite = 0
           /\ lastCall.nFlush = 0
           /\ connection = pre.connection
           /\ connected = pre.connected
           /\ pending = pre.pending
           /\ wire = pre.wire

\* a send refused after a connect that failed over an open handle
C5_Witness ==
    /\ lastCall.op = "send_data"
    /\ lastCall.ret = "False"
    /\ ~pre.connected
    /\ pre.connection = "open"
    /\ pre.wire # <<>>

C7_OutcomeMatches ==
    /\ pc = "report"
          => /\ won <=> payout > 0
             /\ won => payout \in Amounts
             /\ ~won => payout = 0
    /\ pc = "cooldown"
          => LET last == sendLog[Len(sendLog)]
             IN  /\ Len(sendLog) = 2 * turns
                 /\ lastCall.op = "send_data"
                 /\ lastCall.arg = last
                 /\ won => (payout \in Amounts /\ payout > 0 /\ last = <<"WIN ", ToString(payout)>>)
                 /\ ~won => (payout = 0 /\ last = <<"LOSE">>)

\* a won turn reported with the smallest amount of the table
C7_Witness ==
    /\ pc = "cooldown"
    /\ won
    /\ payout = 10
    /\ sendLog[Len(sendLog)] = <<"WIN ", "10">>

\* C8: while no connect has succeeded the orchestrator is in the connect
\* loop (or was interrupted out of it): nothing was polled or sent. The
\* process never ends because a connect or a send failed.
C8_NothingBeforeConnect ==
    /\ connection = "None"
          => /\ pc \in {"connect", "retry_sleep", "exited"}
             /\ sendLog = <<>>
             /\ turns = 0
             /\ last_state = FALSE
             /\ lastCall.op \in {"none", "connect"}
    /\ exitCause \in {"none", "interrupt", "hardware"}
    /\ (pc = "exited" /\ connection = "None") => exitCause = "interrupt"

\* C8 (continued): a connect that fails is followed by the retry delay and
\* the delay by another connect; a connect that succeeds by the first poll.
C8_RetryStep ==
    [][/\ pc = "connect"
          => /\ lastCall'.op = "connect"
             /\ pc' = IF lastCall'.ret = "True" THEN "poll" ELSE "retry_sleep"
             /\ exitCause' = "none"
       /\ pc = "retry_sleep"
          => \/ pc' = "connect" /\ exitCause' = "none"
             \/ pc' = "exited" /\ exitCause' = "interrupt"]_vars

\* C8: connect is retried until it succeeds; no poll or send before that.
C8_WaitForLink == []C8_NothingBeforeConnect /\ C8_RetryStep

\* a connect has failed and the orchestrator waits to retry
C8_Witness ==
    /\ pc = "retry_sleep"
    /\ lastCall.op = "connect"
    /\ lastCall.ret = "False"
    /\ exitCause = "none"

\* C9: whatever a send returns, the turn goes on: the gamble notice is
\* followed by the presentation, the presentation by the outcome report,
\* the report by the cooldown and the cooldown by the poll delay and a poll;
\* only an interrupt takes the orchestrator out of that sequence.
C9_TurnStep ==
    [][/\ pc = "send_gamble"
          => /\ lastCall'.op = "send_data"
             /\ pc' = "play" /\ anim' = "spin" /\ exitCause' = "none"
       /\ pc = "play" => pc' \in {"play", "frame_sleep", "report"} /\ exitCause' = "none"
       /\ pc = "frame_sleep" => pc' = "play" \/ exitCause' = "interrupt"
       /\ pc = "report"
          => /\ lastCall'.op = "send_data"
             /\ pc' = "cooldown" /\ exitCause' = "none"
       /\ pc = "cooldown" => pc' = "poll_sleep" \/ exitCause' = "interrupt"
       /\ pc = "poll_sleep" => pc' = "poll" \/ exitCause' = "interrupt"]_vars

\* C9: no send failure ends the orchestrator or cuts a turn short.
C9_SendFailureNonFatal == [](exitCause # "send") /\ C9_TurnStep

\* the gamble notice failed at write, the outcome line of the same turn is
\* on the wire, and the orchestrator polls again
C9_Witness ==
    /\ pc = "poll"
    /\ turns = 1
    /\ faults = 1
    /\ Len(sendLog) = 2
    /\ wire = sendLog[2] \o <<NL>>
    /\ exitCause = "none"

\* C10: after a send_data call whose write or flush failed, the link is
\* Disconnected (connected is false).
C10_DisconnectedAfterIoError ==
    (lastCall.op = "send_data" /\ lastCall.nWrite = 1 /\ lastCall.ret = "False")
        => ~connected

\* C11: disconnect closes the handle if it is open and otherwise does
\* nothing; after it the link is Disconnected, and a second disconnect (or
\* one on a link that never connected) changes nothing and closes nothing.
C11_DisconnectIdempotent ==
    lastCall.op = "disconnect"
        => /\ lastCall.ret = "None"
           /\ ~connected
           /\ connection # "open"
           /\ connection = (IF pre.connection = "None" THEN "None" ELSE "closed")
           /\ lastCall.nClose = (IF pre.connection = "open" THEN 1 ELSE 0)
           /\ wire = pre.wire
           /\ pre.connection # "open"
                 => /\ connected = pre.connected
                    /\ pending = pre.pending
                    /\ rx = pre.rx
           /\ lastCall.repeat
                 => /\ lastCall.nClose = 0
                    /\ connection = pre.connection
                    /\ connected = pre.connected
                    /\ pending = pre.pending
                    /\ rx = pre.rx

\* a second disconnect in a row on a link that had been open
C11_Witness ==
    /\ lastCall.op = "disconnect"
    /\ lastCall.repeat
    /\ pre.connection = "closed"
    /\ connection = "closed"
    /\ wire # <<>>

\* s is an initial part of t
IsPrefixOf(s, t) == Len(s) <= Len(t) /\ SubSeq(t, 1, Len(s)) = s

\* the line a read_data call read was complete (newline-terminated) and its
\* text is neither empty nor valid JSON
MalformedLineRead ==
    /\ lastCall.op = "read_data"
    /\ lastCall.arg # <<>>
    /\ lastCall.arg[Len(lastCall.arg)] = NL
    /\ Strip(lastCall.arg) # <<>>
    /\ ~JsonLoadsOk(Strip(lastCall.arg))

\* C12: a read_data call that meets a buffered line that is not valid JSON
\* returns None without raising, has taken that line out of the buffer (what
\* is buffered afterwards is what followed the line, plus later arrivals),
\* and leaves connected and the handle as they were.
C12_MalformedLineDiscarded ==
    MalformedLineRead
        => /\ lastCall.ret = "None"
           /\ \E k \in 1..Len(pre.rx) :
                 /\ lastCall.arg = SubSeq(pre.rx, 1, k)
                 /\ IsPrefixOf(SubSeq(pre.rx, k + 1, Len(pre.rx)), rx)
           /\ connected = pre.connected
           /\ connected
           /\ connection = pre.connection
           /\ pending = pre.pending
           /\ wire = pre.wire

\* a malformed line was read and discarded, and nothing is left of it
C12_Witness ==
    /\ MalformedLineRead
    /\ pre.rx = <<"B", NL>>
    /\ rx = <<>>
    /\ lastCall.ret = "None"
    /\ connected

\* C17: a read_data call made while no complete newline-terminated line is
\* buffered returns None and consumes nothing.
C17_PartialLineLeftAlone ==
    (lastCall.op = "read_data" /\ FirstNL(pre.rx, 1) = 0)
        => /\ lastCall.ret = "None"
           /\ lastCall.arg = <<>>
           /\ IsPrefixOf(pre.rx, rx)

\* C13: once a read of the input line has failed during a poll, nothing is
\* polled, no turn starts and nothing is sent any more; control is in the
\* finally block of main() or past it, and the process has not terminated
\* without both the link disconnect and the GPIO cleanup.
C13_HardwareFailureTeardown ==
    /\ [](exitCause = "hardware"
            => /\ pc \in {"finally", "exited"}
               /\ pc = "exited"
                    => /\ teardown.disconnect
                       /\ teardown.cleanup
                       /\ ~connected
                       /\ connection # "open")
    /\ [][exitCause = "hardware"
            => /\ UNCHANGED <<sendLog, wire, turns, last_state, released, exitCause>>
               /\ pc' = "exited"
               /\ lastCall'.op = "disconnect"]_vars
    /\ [][exitCause' = "hardware" /\ exitCause # "hardware"
            => pc = "poll" /\ pc' = "finally"]_vars

\* the poll failed after a turn, and the process ended with the link closed
\* by the teardown
C13_Witness ==
    /\ exitCause = "hardware"
    /\ pc = "exited"
    /\ turns >= 1
    /\ teardown.disconnect
    /\ teardown.cleanup
    /\ lastCall.op = "disconnect"
    /\ lastCall.nClose = 1

\* the state of the orchestrator's cycle that a position of the code is in
Phase(p) ==
    CASE p \in {"connect", "retry_sleep"} -> "WaitForLink"
      [] p \in {"poll", "poll_sleep"}     -> "WaitForButton"
      [] p = "send_gamble"                -> "SendGambleNotice"
      [] p \in {"play", "frame_sleep"}    -> "RunPresentation"
      [] p = "report"                     -> "ReportOutcome"
      [] p = "cooldown"                   -> "Cooldown"
      [] OTHER                            -> "Stopped"

CycleEdges ==
    { <<"WaitForLink", "WaitForButton">>,
      <<"WaitForButton", "SendGambleNotice">>,
      <<"SendGambleNotice", "RunPresentation">>,
      <<"RunPresentation", "ReportOutcome">>,
      <<"ReportOutcome", "Cooldown">>,
      <<"Cooldown", "WaitForButton">> }

\* every change of state is an edge of the cycle, unless an interrupt or a
\* hardware failure stops the orchestrator; a turn is counted exactly when
\* WaitForButton is left for SendGambleNotice
C14_CycleOrder ==
    [][/\ Phase(pc') # Phase(pc)
          => \/ <<Phase(pc), Phase(pc')>> \in CycleEdges /\ exitCause' = "none"
             \/ exitCause' \in {"interrupt", "hardware"}
       /\ (turns' # turns) <=> (pc = "poll" /\ pc' = "send_gamble")
       /\ Phase(pc') = "WaitForLink" => Phase(pc) = "WaitForLink"]_vars

\* C14: the orchestrator goes through WaitForLink, WaitForButton,
\* SendGambleNotice, RunPresentation, ReportOutcome, Cooldown and back to
\* WaitForButton in that order and never back to WaitForLink; it stops only
\* on an interrupt or a hardware failure; and, when the event loop keeps
\* running it, no turn lasts forever: the orchestrator is again and again
\* outside a turn, which by the order of the cycle it can only be after
\* ReportOutcome and Cooldown.
C14_Cycle ==
    /\ C14_CycleOrder
    /\ [](Phase(pc) = "Stopped" => exitCause \in {"interrupt", "hardware"})
    /\ []<>(Phase(pc) \in {"WaitForLink", "WaitForButton", "Stopped"})

\* a second turn has been reported and the orchestrator polls again
C14_Witness ==
    /\ pc = "poll"
    /\ turns = MaxTurns
    /\ Len(sendLog) = 2 * MaxTurns
    /\ frames.spin > 0
    /\ exitCause = "none"

\* the animation being played has been played to its last frame: every
\* frame was displayed and every frame delay has expired
AnimationComplete ==
    /\ pc = "play"
    /\ frameIdx = frames[anim]
    /\ Len(rendered) = frames[anim]
    /\ waits = frames[anim]

\* the outcome animation that is played, or was played last, is the one of
\* the gate's result, and the report is reached with it played to the end
C15_OutcomeAnimation ==
    /\ (pc \in {"play", "frame_sleep", "report"} /\ anim # "spin")
          => /\ anim \in {"win", "lose"}
             /\ anim = "win" <=> won
    /\ pc = "report"
          => /\ anim # "spin"
             /\ frameIdx = frames[anim]
             /\ Len(rendered) = frames[anim]
             /\ waits = frames[anim]
             /\ payout > 0 <=> won

\* the steps of one presentation follow one another, each after the one
\* before it is complete
C15_Steps ==
    [][/\ (anim = "spin" /\ anim' # "spin")
          => AnimationComplete /\ pc' = "play" /\ frameIdx' = 0 /\ rendered' = <<>>
       /\ won' # won => (anim = "spin" /\ anim' # "spin")
       /\ (anim # "spin" /\ anim' # anim)
          => pc = "send_gamble" /\ anim' = "spin"
       /\ (pc' = "report" /\ pc # "report")
          => AnimationComplete /\ anim # "spin" /\ anim' = anim
       /\ payout' # payout => pc' = "report" /\ pc = "play"
       /\ (sendLog' # sendLog /\ pc # "send_gamble")
          => /\ pc = "report"
             /\ sendLog' = Append(sendLog, OutcomeText(payout))
       /\ rendered' # rendered
          => \/ pc = "play" /\ pc' = "frame_sleep" /\ Len(rendered') = Len(rendered) + 1
             \/ rendered' = <<>>]_vars

\* C15: in a turn the spin animation is played to its last frame before the
\* gate is drawn; then one outcome animation is played, the win animation
\* if and only if the gate passed; and the payout is returned, and the
\* outcome line sent, only after that animation was played to its end.
C15_PresentationInSequence == []C15_OutcomeAnimation /\ C15_Steps

\* a won turn is at the report after a spin and a win animation that both
\* have frames
C15_Witness ==
    /\ pc = "report"
    /\ won
    /\ anim = "win"
    /\ frames.spin = MaxFrames
    /\ frames.win = MaxFrames
    /\ Len(rendered) = MaxFrames
    /\ payout > 0

\* positions of a turn and of its cooldown
TurnPositions == {"send_gamble", "play", "frame_sleep", "report", "cooldown"}

\* the button is read by the polls of WaitForButton only, and a turn after
\* the first starts only after a poll read the button not pressed since the
\* turn before it started
C16_Steps ==
    [][/\ (last_state' # last_state \/ released' # released) => pc = "poll"
       /\ turns' # turns
          => /\ pc = "poll"
             /\ turns' = turns + 1
             /\ ~last_state
             /\ turns > 0 => released
             /\ ~released'
       /\ (pc = "poll" /\ last_state /\ ~released /\ pc' \notin {"finally", "exited"})
          => /\ pc' = "poll_sleep"
             /\ turns' = turns]_vars

\* C16: one continuous press starts one turn. During a turn and its
\* cooldown the button is not polled (the press that started the turn is
\* still the last sample), and between two turns there is a poll that read
\* the button not pressed.
C16_OneTurnPerPress ==
    /\ [](pc \in TurnPositions => last_state /\ ~released)
    /\ C16_Steps

\* polling has resumed after a whole turn and its cooldown, with the press
\* that started the turn still the last sample and no release sampled since
C16_Witness ==
    /\ pc = "poll"
    /\ turns = 1
    /\ Len(sendLog) = 2
    /\ last_state
    /\ ~released
    /\ lastCall.op = "send_data"
    /\ exitCause = "none"

\* C18: when the presentation of a turn is over, an audio cue was triggered
\* for its outcome: the win cue if the turn is won, the lose cue if not.
C18_CueMatchesOutcome ==
    pc = "report"
        => /\ Len(cues) = turns
           /\ cues # <<>>
           /\ cues[Len(cues)] = (IF won THEN "win" ELSE "lose")

\* the render calls made so far are those of the first k frames, in order
RenderedFirst(k) ==
    /\ Len(rendered) = k
    /\ \A i \in 1..k : rendered[i] = i

\* where play_animation stands: before iteration frameIdx every earlier
\* frame was displayed once and waited for once; in the sleep of iteration
\* frameIdx its frame was displayed and is still to be waited for; when
\* the animation has returned, n frames were displayed and n waits made
C19_Progress ==
    /\ pc = "play"
          => /\ frameIdx <= frames[anim]
             /\ RenderedFirst(frameIdx)
             /\ waits = frameIdx
    /\ pc = "frame_sleep"
          => /\ frameIdx < frames[anim]
             /\ RenderedFirst(frameIdx + 1)
             /\ waits = frameIdx
    /\ pc = "report"
          => /\ RenderedFirst(frames[anim])
             /\ waits = frames[anim]

\* an animation is left only when all its frames were displayed and waited
\* for, and an empty one is left at once, with no render call and no wait
C19_Steps ==
    [][/\ (pc = "play" /\ pc' \in {"play", "report"})
          => /\ RenderedFirst(frames[anim])
             /\ waits = frames[anim]
       /\ (pc = "play" /\ frames[anim] = 0)
          => /\ pc' \in {"play", "report"}
             /\ rendered = <<>> /\ waits = 0
             /\ rendered' = <<>> /\ waits' = 0
       /\ (pc = "play" /\ pc' = "frame_sleep")
          => /\ rendered' = Append(rendered, frameIdx + 1)
             /\ waits' = waits
       /\ pc = "frame_sleep"
          => \/ pc' = "play" /\ waits' = waits + 1 /\ rendered' = rendered
             \/ exitCause' = "interrupt" /\ waits' = waits /\ rendered' = rendered]_vars

\* C19: play_animation on n frames makes n render calls, of the frames in
\* order, each followed by one frame delay before the next; on no frames
\* it returns at once with no render call and no wait.
C19_FramesInOrder == []C19_Progress /\ C19_Steps

\* an empty spin animation was passed and an outcome animation of MaxFrames
\* frames was played to its end
C19_Witness ==
    /\ pc = "report"
    /\ frames.spin = 0
    /\ frames[anim] = MaxFrames
    /\ rendered = [i \in 1..MaxFrames |-> i]
    /\ waits = MaxFrames

\* the table as the specification fixes it: as many weights as amounts, all
\* weights positive, the amounts distinct and positive
PayoutTableWellFormed ==
    /\ GAMBLE_CHANCES = <<10, 50, 100, 200, 500, 1000, 10000, 100000>>
    /\ Len(GAMBLE_WEIGHTS) = Len(GAMBLE_CHANCES)
    /\ \A i \in 1..Len(GAMBLE_WEIGHTS) : GAMBLE_WEIGHTS[i] > 0
    /\ \A i \in 1..Len(GAMBLE_CHANCES) : GAMBLE_CHANCES[i] > 0
    /\ \A i, j \in 1..Len(GAMBLE_CHANCES) : GAMBLE_CHANCES[i] = GAMBLE_CHANCES[j] => i = j

\* the amount returned is the one of the interval the draw lies in
C20_InInterval ==
    pc = "returned"
        => /\ \E i \in 1..Len(GAMBLE_CHANCES) :
                 /\ payout = GAMBLE_CHANCES[i]
                 /\ CumWeight(i - 1) <= draw
                 /\ draw < CumWeight(i)
           /\ payout \in Amounts
           /\ draw \in Draws

\* every amount has a draw for which it is returned: the left end of its
\* interval is one
C20_EveryAmountDrawn ==
    \A i \in 1..Len(GAMBLE_CHANCES) :
        /\ CumWeight(i - 1) \in Draws
        /\ get_payout(CumWeight(i - 1)) = GAMBLE_CHANCES[i]

\* C20: for every draw in [0, sum of weights) get_payout returns the amount
\* whose cumulative-weight interval contains the draw; every amount of the
\* table is returned for some draw and nothing else is; and the call changes
\* nothing but its result.
C20_PayoutByInterval ==
    /\ [](PayoutTableWellFormed /\ C20_InInterval /\ C20_EveryAmountDrawn)
    /\ [][pc = "get_payout"
            => /\ payout' = get_payout(draw)
               /\ UNCHANGED <<linkVars, buttonVars, videoVars, audioVars, draw, won,
                              sendLog, turns, teardown, exitCause>>]_vars

\* the draw is the first value of the interval of the 1000 amount, the
\* sixth of the table
C20_Witness ==
    /\ pc = "returned"
    /\ draw = CumWeight(5)
    /\ payout = GAMBLE_CHANCES[6]
    /\ payout = 1000

====
